---- MODULE Spec2Model ----
(***************************************************************************)
(* Equation Builder (src/superstudent.jsx): the puzzle generator, the      *)
(* restricted evaluator, the token pool / equation sequence and the        *)
(* checker, as a state machine over the component's React state.           *)
(*                                                                         *)
(* A JavaScript string is a sequence of one-character strings; a token     *)
(* text is such a string.  A number is an exact rational with a signed     *)
(* zero, a signed infinity or NaN (see the section on numbers).            *)
(***************************************************************************)
EXTENDS Integers, Sequences, FiniteSets, TLC

VARIABLES
    score,              \* useState(0)
    timeLeft,           \* useState(60)
    currentLevel,       \* useState(1)
    gameStarted,        \* useState(false)
    targetValue,        \* useState(null): Null or Some(integer)
    originalExpr,       \* useState(""): string
    originalTokens,     \* useState([]): sequence of token texts
    availableTokens,    \* useState([]): sequence of [id, token, used]
    equationTokens,     \* useState([]): sequence of [id, token]
    solutionVisible,    \* useState(false)
    activePopup,        \* useState('welcome')
    wrongAnswerData,    \* useState({expr:'', result:null, message:''})
    hint,               \* useState(null): Null or Some(hint)
    timerRef,           \* useRef(null): TRUE while the interval is scheduled
    hintTimerRef,       \* useRef(null) and the hint timeouts: [current, pending]
    currentQuestionRef, \* useRef(null): Null or Some([originalExpr, originalTokens, targetValue, numCount])
    idCount,            \* ids handed out by genId since the pool was last rebuilt
    tries,              \* newRound: the local `tries`
    roundPc,            \* newRound: position in the retry loop
    items,              \* buildRandomExpr: the working list
    opsCopy,            \* buildRandomExpr: the remaining operators
    lastOp,             \* buildRandomExpr: the operator drawn by the latest iteration
    genPc,              \* buildRandomExpr: position in the loop
    reductions,         \* buildRandomExpr: successful reductions so far
    progressLoaded      \* loadSavedProgress: the request of the mount effect has resolved

vars == <<score, timeLeft, currentLevel, gameStarted, targetValue, originalExpr,
          originalTokens, availableTokens, equationTokens, solutionVisible,
          activePopup, wrongAnswerData, hint, timerRef, hintTimerRef,
          currentQuestionRef, idCount, tries, roundPc, items, opsCopy, lastOp,
          genPc, reductions, progressLoaded>>

\* null is the empty sequence and a value x that may be null is <<x>>; the
\* popup, a string, has its own name for null.
Null == <<>>
Some(x) == <<x>>
NoPopup == "none"

(***************************************************************************)
(* Bounds of the model.                                                    *)
(***************************************************************************)
\* Largest numerator / denominator the exact arithmetic carries; a result
\* beyond it is outside the modelled range (kind "over").
MaxMagnitude == 30000
\* Longest decimal literal that is read.
MaxDigits == 4

(***************************************************************************)
(* Program constants.                                                      *)
(***************************************************************************)
OPS == <<"+", "-", "*", "/">>
ATTEMPT_LIMIT == 400

Digits == {"0", "1", "2", "3", "4", "5", "6", "7", "8", "9"}
DigitVal(c) ==
    CASE c = "0" -> 0 [] c = "1" -> 1 [] c = "2" -> 2 [] c = "3" -> 3
      [] c = "4" -> 4 [] c = "5" -> 5 [] c = "6" -> 6 [] c = "7" -> 7
      [] c = "8" -> 8 [] c = "9" -> 9
DigitChar(n) == <<"0", "1", "2", "3", "4", "5", "6", "7", "8", "9">>[n + 1]

\* The character class [0-9+\-*/()] of the two regular expressions.
AllowedChars == Digits \cup {"+", "-", "*", "/", "(", ")"}
\* \s of checkEquation's replace.
WhiteSpace == {" "}

Range(s) == {s[k] : k \in 1..Len(s)}
Abs(x) == IF x < 0 THEN -x ELSE x
Sign(x) == IF x < 0 THEN -1 ELSE 1
Min(a, b) == IF a <= b THEN a ELSE b
Max(a, b) == IF a >= b THEN a ELSE b

RECURSIVE Gcd(_, _)
Gcd(a, b) == IF b = 0 THEN a ELSE Gcd(b, a % b)

RECURSIVE Join(_)
\* tokens.join(''): the concatenation of a sequence of strings.
Join(ss) == IF ss = <<>> THEN <<>> ELSE Head(ss) \o Join(Tail(ss))

(***************************************************************************)
(* Numbers.  A JavaScript number is modelled exactly: [k |-> "num"] is the *)
(* rational n/d in lowest terms with sign s (s is the sign of a zero too), *)
(* "inf" is the infinity of sign s, "nan" is NaN.  "nan" also stands for   *)
(* the two non-numbers the grammar can produce, a regular expression       *)
(* object and a string built from one: Number.isFinite is false of them    *)
(* and Math.round, unary and binary arithmetic turn them into NaN.         *)
(* "over" is a finite value outside the modelled range.  Doubles round;    *)
(* within MaxMagnitude a rational that is no integer is further than 1e-9  *)
(* from every integer, which is the only place the program looks at the    *)
(* fraction.                                                               *)
(***************************************************************************)
NaN == [k |-> "nan", n |-> 0, d |-> 0, s |-> 1]
Inf(sg) == [k |-> "inf", n |-> 0, d |-> 0, s |-> sg]
Over == [k |-> "over", n |-> 0, d |-> 0, s |-> 1]
Zero(sg) == [k |-> "num", n |-> 0, d |-> 1, s |-> sg]

\* The rational a/b (b # 0), in lowest terms; zsign is the sign of a zero.
Rat(a, b, zsign) ==
    IF a = 0 THEN Zero(zsign)
    ELSE LET g == Gcd(Abs(a), Abs(b))
             nn == (Sign(b) * a) \div g
             dd == Abs(b) \div g
         IN IF Abs(nn) > MaxMagnitude \/ dd > MaxMagnitude THEN Over
            ELSE [k |-> "num", n |-> nn, d |-> dd, s |-> Sign(nn)]

Int2Num(i) == Rat(i, 1, 1)
IsZero(x) == x.k = "num" /\ x.n = 0

\* Number.isFinite
IsFinite(x) == x.k = "num" \/ x.k = "over"

\* unary -
Neg(x) ==
    CASE x.k = "num" -> [x EXCEPT !.n = -x.n, !.s = -x.s]
      [] x.k = "inf" -> Inf(-x.s)
      [] OTHER -> x

\* binary +
NumAdd(x, y) ==
    CASE x.k = "nan" \/ y.k = "nan" -> NaN
      [] x.k = "over" \/ y.k = "over" -> Over
      [] x.k = "inf" /\ y.k = "inf" -> IF x.s = y.s THEN x ELSE NaN
      [] x.k = "inf" -> x
      [] y.k = "inf" -> y
      [] OTHER -> Rat(x.n * y.d + y.n * x.d, x.d * y.d,
                      IF IsZero(x) /\ IsZero(y) /\ x.s = -1 /\ y.s = -1 THEN -1 ELSE 1)

\* binary -
NumSub(x, y) == NumAdd(x, Neg(y))

\* binary *
NumMul(x, y) ==
    CASE x.k = "nan" \/ y.k = "nan" -> NaN
      [] x.k = "over" \/ y.k = "over" -> Over
      [] x.k = "inf" \/ y.k = "inf" ->
            IF IsZero(x) \/ IsZero(y) THEN NaN ELSE Inf(x.s * y.s)
      [] OTHER -> Rat(x.n * y.n, x.d * y.d, x.s * y.s)

\* binary /
NumDiv(x, y) ==
    CASE x.k = "nan" \/ y.k = "nan" -> NaN
      [] x.k = "over" \/ y.k = "over" -> Over
      [] x.k = "inf" /\ y.k = "inf" -> NaN
      [] x.k = "inf" -> Inf(x.s * y.s)
      [] y.k = "inf" -> Zero(x.s * y.s)
      [] IsZero(y) -> IF IsZero(x) THEN NaN ELSE Inf(x.s * y.s)
      [] OTHER -> Rat(x.n * y.d, x.d * y.n, x.s * y.s)

RECURSIVE IntPow(_, _)
\* b^e for naturals b >= 1 and e, or -1 once it leaves the modelled range.
IntPow(b, e) ==
    IF e = 0 \/ b = 1 THEN 1
    ELSE IF e > 31 THEN -1
    ELSE LET r == IntPow(b, e - 1)
         IN IF r < 0 \/ r * b > MaxMagnitude THEN -1 ELSE r * b

IsOddInt(y) == y.k = "num" /\ y.d = 1 /\ y.n % 2 = 1

\* binary ** (Number::exponentiate)
NumPow(x, y) ==
    CASE y.k = "nan" -> NaN
      [] IsZero(y) -> Int2Num(1)
      [] x.k = "nan" -> NaN
      [] x.k = "over" \/ y.k = "over" -> Over
      [] x.k = "inf" /\ x.s = 1 -> IF y.s = 1 THEN Inf(1) ELSE Zero(1)
      [] x.k = "inf" /\ x.s = -1 ->
            IF y.s = 1 THEN (IF IsOddInt(y) THEN Inf(-1) ELSE Inf(1))
            ELSE (IF IsOddInt(y) THEN Zero(-1) ELSE Zero(1))
      [] IsZero(x) /\ x.s = 1 -> IF y.s = 1 THEN Zero(1) ELSE Inf(1)
      [] IsZero(x) /\ x.s = -1 ->
            IF y.s = 1 THEN (IF IsOddInt(y) THEN Zero(-1) ELSE Zero(1))
            ELSE (IF IsOddInt(y) THEN Inf(-1) ELSE Inf(1))
      [] y.k = "inf" ->
            IF Abs(x.n) = x.d THEN NaN
            ELSE IF (Abs(x.n) > x.d) = (y.s = 1) THEN Inf(1) ELSE Zero(1)
      [] y.d # 1 -> IF x.n < 0 THEN NaN
                    ELSE IF x.n = x.d THEN Int2Num(1) ELSE Over
      [] OTHER ->
            LET e == Abs(y.n)
                pn == IntPow(Abs(x.n), e)
                pd == IntPow(x.d, e)
                sg == IF x.n < 0 /\ e % 2 = 1 THEN -1 ELSE 1
            IN IF pn < 0 \/ pd < 0 THEN Over
               ELSE IF y.n > 0 THEN Rat(sg * pn, pd, 1) ELSE Rat(sg * pd, pn, 1)

\* Math.round: floor(x + 0.5); infinities and NaN are returned as they are.
MathRound(x) ==
    IF x.k = "num" THEN Rat((2 * x.n + x.d) \div (2 * x.d), 1, 1) ELSE x

\* Math.abs(x - y) > 1e-9.  A comparison with NaN is false.
DiffersByMoreThanTolerance(x, y) ==
    LET diff == NumSub(x, y)
    IN CASE diff.k = "inf" -> TRUE
         [] diff.k = "num" -> Abs(diff.n) > diff.d \div 1000000000
         [] OTHER -> FALSE

\* x === y for two numbers (+0 === -0; NaN equals nothing).
StrictEq(x, y) == x.k = "num" /\ y.k = "num" /\ x.n = y.n /\ x.d = y.d

(***************************************************************************)
(* Strings: the two regular expressions, tokenize, balancedParens.         *)
(***************************************************************************)
\* /^[0-9+\-*/()]+$/.test(s)
MatchesGrammarChars(s) == Len(s) > 0 /\ Range(s) \subseteq AllowedChars

\* s.replace(/\s+/g, '')
RECURSIVE StripWhiteSpace(_)
StripWhiteSpace(s) ==
    IF s = <<>> THEN <<>>
    ELSE IF Head(s) \in WhiteSpace THEN StripWhiteSpace(Tail(s))
    ELSE <<Head(s)>> \o StripWhiteSpace(Tail(s))

RECURSIVE DigitRunEnd(_, _)
\* The first position at or after p that holds no digit.
DigitRunEnd(s, p) ==
    IF p <= Len(s) /\ s[p] \in Digits THEN DigitRunEnd(s, p + 1) ELSE p

RECURSIVE TokenizeFrom(_, _)
TokenizeFrom(s, p) ==
    IF p > Len(s) THEN <<>>
    ELSE IF s[p] \in Digits
         THEN LET q == DigitRunEnd(s, p)
              IN <<SubSeq(s, p, q - 1)>> \o TokenizeFrom(s, q)
    ELSE IF s[p] \in AllowedChars THEN <<(<<s[p]>>)>> \o TokenizeFrom(s, p + 1)
    ELSE TokenizeFrom(s, p + 1)

\* expr.match(/(\d+|\+|\-|\*|\/|\(|\))/g) || []
tokenize(expr) == TokenizeFrom(expr, 1)

RECURSIVE ParenScan(_, _, _)
\* The loop of balancedParens from position p with counter c.
ParenScan(s, p, c) ==
    IF p > Len(s) THEN c = 0
    ELSE IF s[p] = "(" THEN ParenScan(s, p + 1, c + 1)
    ELSE IF s[p] = ")" THEN (IF c - 1 < 0 THEN FALSE ELSE ParenScan(s, p + 1, c - 1))
    ELSE ParenScan(s, p + 1, c)

balancedParens(s) == ParenScan(s, 1, 0)

(***************************************************************************)
(* safeEval: the character test, then new Function('"use strict"; return   *)
(* (' + expr + ');')(), that is, the JavaScript reading of the text        *)
(* between the two parentheses of the wrapper.  Over the allowed           *)
(* characters JavaScript reads: decimal literals (a leading 0 before       *)
(* another digit is a strict-mode syntax error), the binary operators      *)
(* + - * / and ** (right associative, no unary operator on its base), the  *)
(* unary + and -, the tokens ++ and -- (always an error here: no operand   *)
(* is assignable), parentheses, a call f(...) (always a TypeError here: no *)
(* operand is a function), the comments // and /* */, and, where an        *)
(* operand is expected, a regular expression literal /body/.               *)
(* The text is read token by token with a stack of values and a stack of   *)
(* pending operators.                                                      *)
(***************************************************************************)
At(t, p) == IF p >= 1 /\ p <= Len(t) THEN t[p] ELSE "end"

RECURSIVE FindCommentEnd(_, _)
\* The position after the first */ at or after p, or 0 when there is none.
FindCommentEnd(t, p) ==
    IF p + 1 > Len(t) THEN 0
    ELSE IF t[p] = "*" /\ t[p + 1] = "/" THEN p + 2
    ELSE FindCommentEnd(t, p + 1)

RECURSIVE SkipComments(_, _)
\* The position of the next token at or after p; 0 for an unterminated
\* block comment.  A line comment runs to the end of the program text.
SkipComments(t, p) ==
    IF p = 0 THEN 0
    ELSE IF At(t, p) = "/" /\ At(t, p + 1) = "*"
         THEN SkipComments(t, FindCommentEnd(t, p + 2))
    ELSE IF At(t, p) = "/" /\ At(t, p + 1) = "/" THEN Len(t) + 1
    ELSE p

RECURSIVE DecimalValue(_)
DecimalValue(ds) ==
    IF ds = <<>> THEN 0
    ELSE 10 * DecimalValue(SubSeq(ds, 1, Len(ds) - 1)) + DigitVal(ds[Len(ds)])

RECURSIVE FindSlash(_, _)
\* The position of the first / at or after p, or 0.
FindSlash(t, p) ==
    IF p > Len(t) THEN 0 ELSE IF t[p] = "/" THEN p ELSE FindSlash(t, p + 1)

\* The body of a regular expression literal is a pattern: its parentheses
\* balance and every quantifier (* or +) directly follows an atom.
ValidPattern(body) ==
    /\ balancedParens(body)
    /\ \A q \in 1..Len(body) :
          body[q] \in {"*", "+"} =>
              q > 1 /\ body[q - 1] \in Digits \cup {"-", ")"}

\* Binding strength of what lies on the operator stack: binary + -, binary
\* * /, unary + -, ** ; an open parenthesis stops every reduction.
Prec(op) ==
    CASE op \in {"b+", "b-"} -> 1
      [] op \in {"b*", "b/"} -> 2
      [] op \in {"u+", "u-"} -> 3
      [] op = "b^" -> 4
      [] OTHER -> 0

\* The value stack after the operator op is applied to its top.
ApplyOp(vals, op) ==
    LET n == Len(vals)
        y == vals[n]
        x == vals[n - 1]
    IN CASE op = "u+" -> vals
         [] op = "u-" -> [vals EXCEPT ![n] = Neg(y)]
         [] op = "b+" -> Append(SubSeq(vals, 1, n - 2), NumAdd(x, y))
         [] op = "b-" -> Append(SubSeq(vals, 1, n - 2), NumSub(x, y))
         [] op = "b*" -> Append(SubSeq(vals, 1, n - 2), NumMul(x, y))
         [] op = "b/" -> Append(SubSeq(vals, 1, n - 2), NumDiv(x, y))
         [] op = "b^" -> Append(SubSeq(vals, 1, n - 2), NumPow(x, y))

RECURSIVE ReduceWhile(_, _, _)
\* Apply the operators on top of the stack that bind at least as tightly
\* as minPrec.
ReduceWhile(vals, ops, minPrec) ==
    IF ops # <<>> /\ Prec(ops[Len(ops)]) >= minPrec
    THEN ReduceWhile(ApplyOp(vals, ops[Len(ops)]), SubSeq(ops, 1, Len(ops) - 1), minPrec)
    ELSE [vals |-> vals, ops |-> ops]

\* The reader's state: the position p, whether an operand is expected
\* there, the stacks of values and of pending operators, and ok = FALSE
\* once the text has a syntax error or calls what is no function.
Reader(pos, operand, vals, ops) ==
    [p |-> pos, operand |-> operand, vals |-> vals, ops |-> ops, ok |-> TRUE]
Broken == [p |-> 0, operand |-> FALSE, vals |-> <<>>, ops |-> <<>>, ok |-> FALSE]

\* One token read where an operand is expected: a literal, a regular
\* expression literal, an open parenthesis or a unary sign.  ++ and -- are
\* one token each, an update of what is no reference.
ReadOperand(t, st, p) ==
    LET c == At(t, p)
    IN IF c \in Digits THEN
            LET q == DigitRunEnd(t, p)
                lit == SubSeq(t, p, q - 1)
            IN IF Len(lit) > 1 /\ lit[1] = "0" THEN Broken
               ELSE Reader(q, FALSE,
                           Append(st.vals, IF Len(lit) > MaxDigits THEN Over
                                           ELSE Int2Num(DecimalValue(lit))),
                           st.ops)
       ELSE IF c = "(" THEN Reader(p + 1, TRUE, st.vals, Append(st.ops, "("))
       ELSE IF c \in {"+", "-"} THEN
            IF At(t, p + 1) = c THEN Broken
            ELSE Reader(p + 1, TRUE, st.vals, Append(st.ops, IF c = "+" THEN "u+" ELSE "u-"))
       ELSE IF c = "/" THEN
            LET q == FindSlash(t, p + 1)
            IN IF q = 0 THEN Broken
               ELSE IF ~ValidPattern(SubSeq(t, p + 1, q - 1)) THEN Broken
               ELSE IF At(t, q + 1) \in Digits THEN Broken
               ELSE Reader(q + 1, FALSE, Append(st.vals, NaN), st.ops)
       ELSE Broken

\* One token read after an operand: a binary operator, or the parenthesis
\* that closes a group.  An open parenthesis there is the argument list of
\* a call of what is no function; ** may not follow a unary sign's operand.
ReadOperator(t, st, p) ==
    LET c == At(t, p)
        top == IF st.ops = <<>> THEN "" ELSE st.ops[Len(st.ops)]
    IN IF c \in {"+", "-"} THEN
            IF At(t, p + 1) = c THEN Broken
            ELSE LET r == ReduceWhile(st.vals, st.ops, 1)
                 IN Reader(p + 1, TRUE, r.vals, Append(r.ops, IF c = "+" THEN "b+" ELSE "b-"))
       ELSE IF c = "*" /\ At(t, p + 1) = "*" THEN
            IF top \in {"u+", "u-"} THEN Broken
            ELSE Reader(p + 2, TRUE, st.vals, Append(st.ops, "b^"))
       ELSE IF c \in {"*", "/"} THEN
            LET r == ReduceWhile(st.vals, st.ops, 2)
            IN Reader(p + 1, TRUE, r.vals, Append(r.ops, IF c = "*" THEN "b*" ELSE "b/"))
       ELSE IF c = ")" THEN
            LET r == ReduceWhile(st.vals, st.ops, 1)
            IN IF r.ops = <<>> THEN Broken
               ELSE Reader(p + 1, FALSE, r.vals, SubSeq(r.ops, 1, Len(r.ops) - 1))
       ELSE Broken

RECURSIVE ReadAll(_, _)
\* Read the program text t to its end.
ReadAll(t, st) ==
    LET p == SkipComments(t, st.p)
    IN IF ~st.ok THEN st
       ELSE IF p = 0 THEN Broken
       ELSE IF p > Len(t) THEN [st EXCEPT !.p = p]
       ELSE ReadAll(t, IF st.operand THEN ReadOperand(t, st, p) ELSE ReadOperator(t, st, p))

\* The program text between `return ` and `;`.
Wrapped(expr) == <<"(">> \o expr \o <<")">>

\* safeEval(expr): [thrown |-> TRUE] for the Error of the character test, a
\* SyntaxError or a TypeError; otherwise the value.
safeEval(expr) ==
    IF ~MatchesGrammarChars(expr) THEN [thrown |-> TRUE, v |-> NaN]
    ELSE LET st == ReadAll(Wrapped(expr), Reader(1, TRUE, <<>>, <<>>))
             r == ReduceWhile(st.vals, st.ops, 1)
         IN IF st.ok /\ ~st.operand /\ r.ops = <<>>
            THEN [thrown |-> FALSE, v |-> r.vals[1]]
            ELSE [thrown |-> TRUE, v |-> NaN]

(***************************************************************************)
(* The token pool and the equation sequence.                               *)
(***************************************************************************)
\* tokens.map(t => ({ id: genId(), token: t, used: false })): genId is
\* modelled as handing out ids that were never handed out before.
MakePool(tokens, firstId) ==
    [k \in 1..Len(tokens) |-> [id |-> firstId + k, token |-> tokens[k], used |-> FALSE]]

\* equationTokens.map(t => t.token).join('')
ExprStr(eq) == Join([k \in 1..Len(eq) |-> eq[k].token])

\* const allTokensUsed = ...
allTokensUsed ==
    Len(equationTokens) = Len(availableTokens) /\ Len(equationTokens) > 0

builderVars == <<availableTokens, equationTokens>>
puzzleVars == <<originalExpr, originalTokens, targetValue>>
timerVars == <<timeLeft, timerRef>>
hintVars == <<hint, hintTimerRef>>
feedbackVars == <<activePopup, wrongAnswerData, score>>
roundVars == <<tries, roundPc>>
genVars == <<items, opsCopy, lastOp, genPc, reductions>>

(***************************************************************************)
(* checkEquation.                                                          *)
(***************************************************************************)
MsgInvalid == "Invalid characters detected."
MsgUnbalanced == "Parentheses are not balanced."
MsgNotWhole == "Must evaluate to a whole number."
MsgWrong == "Try rearranging the pieces!"
MsgCannot == "Cannot evaluate - check syntax."

WrongAnswer(expr, result, message) ==
    [popup |-> "wrongAnswer", scored |-> FALSE,
     data |-> Some([expr |-> expr, result |-> result, message |-> message])]

\* rounded === targetValue: targetValue is null or an integer.
EqualsTarget(rounded, target) ==
    target # Null /\ StrictEq(rounded, Int2Num(target[1]))

\* CheckValue without the whole-number test.
CheckValueNoWholeTest(cleanExprStr, val, rounded, target) ==
    IF EqualsTarget(rounded, target)
    THEN [popup |-> "correct", scored |-> TRUE, data |-> Null]
    ELSE WrongAnswer(cleanExprStr, Some(rounded), MsgWrong)

\* The part of checkEquation after the evaluation: val is the value of
\* safeEval and rounded is Math.round(val).
CheckValue(cleanExprStr, val, rounded, target) ==
    IF DiffersByMoreThanTolerance(val, rounded)
    THEN WrongAnswer(cleanExprStr, Some(val), MsgNotWhole)
    ELSE IF EqualsTarget(rounded, target)
    THEN [popup |-> "correct", scored |-> TRUE, data |-> Null]
    ELSE WrongAnswer(cleanExprStr, Some(rounded), MsgWrong)

\* The try / catch of checkEquation: e is what safeEval did.
CheckEvaluated(cleanExprStr, e, target) ==
    IF e.thrown THEN WrongAnswer(cleanExprStr, Null, MsgCannot)
    ELSE CheckValue(cleanExprStr, e.v, MathRound(e.v), target)

\* CheckClean with the evaluation ahead of the parenthesis check.
CheckCleanEvalFirst(cleanExprStr, target) ==
    IF ~MatchesGrammarChars(cleanExprStr)
    THEN WrongAnswer(cleanExprStr, Null, MsgInvalid)
    ELSE IF safeEval(cleanExprStr).thrown
    THEN WrongAnswer(cleanExprStr, Null, MsgCannot)
    ELSE IF ~balancedParens(cleanExprStr)
    THEN WrongAnswer(cleanExprStr, Null, MsgUnbalanced)
    ELSE CheckEvaluated(cleanExprStr, safeEval(cleanExprStr), target)

CheckClean(cleanExprStr, target) ==
    IF ~MatchesGrammarChars(cleanExprStr)
    THEN WrongAnswer(cleanExprStr, Null, MsgInvalid)
    ELSE IF ~balancedParens(cleanExprStr)
    THEN WrongAnswer(cleanExprStr, Null, MsgUnbalanced)
    ELSE CheckEvaluated(cleanExprStr, safeEval(cleanExprStr), target)

\* What checkEquation decides for the text exprStr and the target: the
\* popup it opens, the wrongAnswerData it stores and whether it scores.
CheckResult(exprStr, target) == CheckClean(StripWhiteSpace(exprStr), target)

\* The text evaluates inside the modelled range of numbers.
InRangeClean(c) == MatchesGrammarChars(c) => safeEval(c).v.k # "over"
InRange(exprStr) == InRangeClean(StripWhiteSpace(exprStr))

\* ShowResult with a message that depends on the score.
ShowResultByScore(r) ==
    /\ activePopup' = r.popup
    /\ wrongAnswerData' =
           IF r.scored THEN wrongAnswerData
           ELSE [r.data[1] EXCEPT !.message = IF score > 0 THEN MsgCannot ELSE @]
    /\ score' = IF r.scored THEN score + 10 ELSE score

\* The state updates of checkEquation for the decision r.
ShowResult(r) ==
    /\ activePopup' = r.popup
    /\ wrongAnswerData' = IF r.scored THEN wrongAnswerData ELSE r.data[1]
    /\ score' = IF r.scored THEN score + 10 ELSE score

\* checkEquation with the equation cleared after a verdict other than Correct.
checkEquationClearing ==
    /\ InRange(ExprStr(equationTokens))
    /\ ShowResult(CheckResult(ExprStr(equationTokens), targetValue))
    /\ equationTokens' =
           IF CheckResult(ExprStr(equationTokens), targetValue).scored
           THEN equationTokens ELSE <<>>
    /\ availableTokens' =
           IF CheckResult(ExprStr(equationTokens), targetValue).scored
           THEN availableTokens ELSE [k \in 1..Len(availableTokens) |->
                    [availableTokens[k] EXCEPT !.used = FALSE]]
    /\ UNCHANGED <<puzzleVars, timerVars, hintVars, roundVars, genVars,
                   currentLevel, progressLoaded, gameStarted, solutionVisible, currentQuestionRef,
                   idCount>>

checkEquation ==
    /\ InRange(ExprStr(equationTokens))
    /\ ShowResult(CheckResult(ExprStr(equationTokens), targetValue))
    /\ UNCHANGED <<builderVars, puzzleVars, timerVars, hintVars, roundVars, genVars,
                   currentLevel, progressLoaded, gameStarted, solutionVisible, currentQuestionRef,
                   idCount>>

(***************************************************************************)
(* addToEquation, removeFromEquation, resetEquation, revealSolution.       *)
(***************************************************************************)
\* PoolAfterAdd without the mark.
PoolNotMarked(pool, index) == pool

\* newAvailable[index].used = true
PoolAfterAdd(pool, index) == [pool EXCEPT ![index].used = TRUE]

\* [...equationTokens, { id: token.id, token: token.token }]
EquationAfterAdd(pool, eq, index) ==
    Append(eq, [id |-> pool[index].id, token |-> pool[index].token])

\* addToEquation without the test of the used flag.
addToEquationUnguarded(index) ==
    /\ index \in 1..Len(availableTokens)
    /\ availableTokens' = PoolAfterAdd(availableTokens, index)
    /\ equationTokens' = EquationAfterAdd(availableTokens, equationTokens, index)
    /\ UNCHANGED <<puzzleVars, timerVars, hintVars, feedbackVars, roundVars, genVars,
                   currentLevel, progressLoaded, gameStarted, solutionVisible,
                   currentQuestionRef, idCount>>

addToEquation(index) ==
    /\ index \in 1..Len(availableTokens)
    /\ IF availableTokens[index].used
       THEN UNCHANGED builderVars
       ELSE /\ availableTokens' = PoolAfterAdd(availableTokens, index)
            /\ equationTokens' = EquationAfterAdd(availableTokens, equationTokens, index)
    /\ UNCHANGED <<puzzleVars, timerVars, hintVars, feedbackVars, roundVars, genVars,
                   currentLevel, progressLoaded, gameStarted, solutionVisible,
                   currentQuestionRef, idCount>>

\* Splice1 with the last entry taken, whatever the index.
SpliceLast(seq, index) == SubSeq(seq, 1, Len(seq) - 1)

\* newEquation.splice(index, 1)
Splice1(seq, index) ==
    SubSeq(seq, 1, index - 1) \o SubSeq(seq, index + 1, Len(seq))

\* PoolAfterRemove with the tokens found by their text.
ReleaseByText(pool, removed) ==
    [k \in 1..Len(pool) |->
        IF pool[k].token = removed.token THEN [pool[k] EXCEPT !.used = FALSE] ELSE pool[k]]

\* availableTokens.map(t => t.id === removed.id ? { ...t, used: false } : t)
PoolAfterRemove(pool, removed) ==
    [k \in 1..Len(pool) |->
        IF pool[k].id = removed.id THEN [pool[k] EXCEPT !.used = FALSE] ELSE pool[k]]

removeFromEquation(index) ==
    /\ index \in 1..Len(equationTokens)
    /\ equationTokens' = Splice1(equationTokens, index)
    /\ availableTokens' = PoolAfterRemove(availableTokens, equationTokens[index])
    /\ UNCHANGED <<puzzleVars, timerVars, hintVars, feedbackVars, roundVars, genVars,
                   currentLevel, progressLoaded, gameStarted, solutionVisible,
                   currentQuestionRef, idCount>>

\* availableTokens.map(t => ({ ...t, used: false }))
AllUnused(pool) == [k \in 1..Len(pool) |-> [pool[k] EXCEPT !.used = FALSE]]

resetEquation ==
    /\ equationTokens' = <<>>
    /\ availableTokens' = AllUnused(availableTokens)
    /\ solutionVisible' = FALSE
    /\ hint' = Null
    /\ UNCHANGED <<puzzleVars, timerVars, hintTimerRef, feedbackVars, roundVars, genVars,
                   currentLevel, progressLoaded, gameStarted, currentQuestionRef, idCount>>

\* FindUnused without the test of the used flag.
FindAnyText(pool, tok) ==
    LET hits == {k \in 1..Len(pool) : pool[k].token = tok}
    IN IF hits = {} THEN 0 ELSE CHOOSE k \in hits : \A h \in hits : k <= h

\* newAvailable.findIndex(t => !t.used && t.token === tok): 0 for -1.
FindUnused(pool, tok) ==
    LET hits == {k \in 1..Len(pool) : ~pool[k].used /\ pool[k].token = tok}
    IN IF hits = {} THEN 0 ELSE CHOOSE k \in hits : \A h \in hits : k <= h

RECURSIVE RevealFrom(_, _, _, _, _)
\* The forEach of revealSolution from original token k on.
RevealFrom(toks, k, pool, eq, ids) ==
    IF k > Len(toks) THEN [pool |-> pool, eq |-> eq, ids |-> ids]
    ELSE LET idx == FindUnused(pool, toks[k])
         IN IF idx > 0
            THEN RevealFrom(toks, k + 1, [pool EXCEPT ![idx].used = TRUE],
                            Append(eq, [id |-> pool[idx].id, token |-> pool[idx].token]),
                            ids)
            ELSE RevealFrom(toks, k + 1, pool,
                            Append(eq, [id |-> ids + 1, token |-> toks[k]]), ids + 1)

revealSolution ==
    LET r == RevealFrom(originalTokens, 1, AllUnused(availableTokens), <<>>, idCount)
    IN /\ availableTokens' = r.pool
       /\ equationTokens' = r.eq
       /\ idCount' = r.ids
       /\ solutionVisible' = TRUE
       /\ UNCHANGED <<puzzleVars, timerVars, hintVars, feedbackVars, roundVars, genVars,
                      currentLevel, progressLoaded, gameStarted, currentQuestionRef>>

(***************************************************************************)
(* showHintShort and the hint timeout.  hintTimerRef holds the ref and the *)
(* timeouts showHintShort has scheduled: current is whether the ref holds  *)
(* a timeout id, pending is the seconds left of each timeout that has      *)
(* neither fired nor been cleared, in the order of their creation.  All    *)
(* have the same delay, so the timeout of the ref, while pending, is the   *)
(* last of them.                                                           *)
(***************************************************************************)
\* setTimeout(..., 10000), in seconds.
HINT_SECONDS == 10

NoHintTimer == [current |-> FALSE, pending |-> <<>>]

\* The signs of the hint texts that are outside ASCII.
TimesSign == "[times]"
DivideSign == "[divide]"
DashSign == "[dash]"

\* originalTokens.filter(t => OPS.includes(t))
HintOps(tokens) == SelectSeq(tokens, LAMBDA t : Len(t) = 1 /\ t[1] \in Range(OPS))

\* ops.reduce(...): how many times op is among ops.
HintCount(ops, op) == Cardinality({k \in 1..Len(ops) : ops[k] = <<op>>})

OpName(firstOp) ==
    IF firstOp = <<"+">> THEN "+" ELSE IF firstOp = <<"-">> THEN "-"
    ELSE IF firstOp = <<"*">> THEN TimesSign ELSE DivideSign

\* /[()]/.test(tok)
HasParen(tok) == \E k \in 1..Len(tok) : tok[k] \in {"(", ")"}

HintParens == <<"Hint: Parentheses are needed.">>
HintFirstOp(ops) == <<"Hint: The first operator is ", OpName(ops[1]), ".">>
HintCounts(ops) ==
    <<"Hint: Operators ", DashSign, " +:", DigitChar(HintCount(ops, "+")),
      ", -:", DigitChar(HintCount(ops, "-")),
      ", ", TimesSign, ":", DigitChar(HintCount(ops, "*")),
      ", ", DivideSign, ":", DigitChar(HintCount(ops, "/"))>>
HintStart(firstTok) ==
    IF HasParen(firstTok) THEN <<"Hint: Starts with parenthesis.">>
    ELSE <<"Hint: First piece is \"">> \o firstTok \o <<"\".">>
HintEnd == <<"Hint: Ends with parenthesis.">>

\* The array hints of showHintShort.
Hints(expr, tokens) ==
    (IF "(" \in Range(expr) THEN <<HintParens>> ELSE <<>>)
    \o (IF HintOps(tokens) # <<>> THEN <<HintFirstOp(HintOps(tokens))>> ELSE <<>>)
    \o <<HintCounts(HintOps(tokens))>>
    \o <<HintStart(tokens[1])>>
    \o (IF HasParen(tokens[Len(tokens)]) THEN <<HintEnd>> ELSE <<>>)

\* HintTimersCleared without the clearTimeout.
HintTimersKept(ref) == ref.pending

\* if (hintTimerRef.current) clearTimeout(hintTimerRef.current): the
\* timeouts still pending afterwards.
HintTimersCleared(ref) ==
    IF ref.current /\ ref.pending # <<>>
    THEN SubSeq(ref.pending, 1, Len(ref.pending) - 1)
    ELSE ref.pending

showHintShort ==
    /\ IF originalExpr = <<>>
       THEN UNCHANGED hintVars
       ELSE /\ hint' \in {Some(h) : h \in Range(Hints(originalExpr, originalTokens))}
            /\ hintTimerRef' = [current |-> TRUE,
                                pending |-> Append(HintTimersCleared(hintTimerRef),
                                                   HINT_SECONDS)]
    /\ UNCHANGED <<builderVars, puzzleVars, timerVars, feedbackVars, roundVars, genVars,
                   currentLevel, progressLoaded, gameStarted, solutionVisible,
                   currentQuestionRef, idCount>>

\* One second passes for the hint timeouts; one that has no second left
\* fires: () => { setHint(null) }.
HintSecondsLeft(pending) == [k \in 1..Len(pending) |-> pending[k] - 1]
HintSecondPasses ==
    /\ hintTimerRef.pending # <<>>
    /\ hintTimerRef' = [hintTimerRef EXCEPT
                           !.pending = SelectSeq(HintSecondsLeft(@), LAMBDA r : r > 0)]
    /\ hint' = IF \E k \in 1..Len(hintTimerRef.pending) : hintTimerRef.pending[k] = 1
               THEN Null ELSE hint
    /\ UNCHANGED <<builderVars, puzzleVars, timerVars, feedbackVars, roundVars, genVars,
                   currentLevel, progressLoaded, gameStarted, solutionVisible,
                   currentQuestionRef, idCount>>

\* {hint && !solutionVisible && (...)}: the hint is on the screen.
HintDisplayed == hint # Null /\ ~solutionVisible

(***************************************************************************)
(* The state after construction (the useState / useRef initial values; the *)
(* locals of newRound and buildRandomExpr are idle).                       *)
(***************************************************************************)
NoWrongAnswer == [expr |-> <<>>, result |-> Null, message |-> ""]

Constructed ==
    /\ score = 0
    /\ timeLeft = 60
    /\ currentLevel = 1
    /\ gameStarted = FALSE
    /\ targetValue = Null
    /\ originalExpr = <<>>
    /\ originalTokens = <<>>
    /\ availableTokens = <<>>
    /\ equationTokens = <<>>
    /\ solutionVisible = FALSE
    /\ activePopup = "welcome"
    /\ wrongAnswerData = NoWrongAnswer
    /\ hint = Null
    /\ timerRef = FALSE
    /\ hintTimerRef = NoHintTimer
    /\ currentQuestionRef = Null
    /\ idCount = 0
    /\ tries = 0
    /\ roundPc = "idle"
    /\ items = <<>>
    /\ opsCopy = <<>>
    /\ lastOp = ""
    /\ genPc = "idle"
    /\ reductions = 0
    /\ progressLoaded = FALSE

(***************************************************************************)
(* SpecCheck: checkEquation as a function of the equation text and the     *)
(* target.  A pool and a target are drawn, any arrangement of any part of  *)
(* the pool is placed, and checkEquation runs on it once.                  *)
(***************************************************************************)
Str3 == <<"3">>
FallbackTokens == <<(<<"(">>), Str3, (<<"+">>), (<<"4">>), (<<")">>), (<<"*">>), (<<"2">>)>>

\* The pools and targets checkEquation is run on: the fallback puzzle,
\* against its target and against another one; the level-1 puzzle
\* ((3-3)/1); the level-1 puzzle ((1*1)*1), which has two tokens *; and
\* tokens with a letter and a blank among them.
CheckInputs ==
    { [tokens |-> FallbackTokens, target |-> 14],
      [tokens |-> FallbackTokens, target |-> 11],
      [tokens |-> <<(<<"(">>), (<<"(">>), (<<"1">>), (<<"*">>), (<<"1">>), (<<")">>),
                    (<<"*">>), (<<"1">>), (<<")">>)>>, target |-> 1],
      [tokens |-> <<(<<"(">>), (<<"(">>), Str3, (<<"-">>), Str3, (<<")">>), (<<"/">>),
                    (<<"1">>), (<<")">>)>>, target |-> 0],
      [tokens |-> <<Str3, (<<"+">>), (<<"4">>), (<<"a">>), (<<" ">>), (<<"(">>)>>,
       target |-> 7] }

InitCheck ==
    \E inp \in CheckInputs :
        /\ score = 0
        /\ timeLeft = 60
        /\ currentLevel = 1
        /\ gameStarted = TRUE
        /\ targetValue = Some(inp.target)
        /\ originalExpr = <<>>
        /\ originalTokens = inp.tokens
        /\ availableTokens = MakePool(inp.tokens, 0)
        /\ equationTokens = <<>>
        /\ solutionVisible = FALSE
        /\ activePopup = NoPopup
        /\ wrongAnswerData = NoWrongAnswer
        /\ hint = Null
        /\ timerRef = FALSE
        /\ hintTimerRef = NoHintTimer
        /\ currentQuestionRef = Null
        /\ idCount = Len(inp.tokens)
        /\ tries = 0
        /\ roundPc = "idle"
        /\ items = <<>>
        /\ opsCopy = <<>>
        /\ lastOp = ""
        /\ genPc = "idle"
        /\ reductions = 0
        /\ progressLoaded = TRUE

\* Of the unused tokens with one text, the first one is placed: the others
\* give the same text.
FirstOfItsText(i) ==
    {k \in 1..(i - 1) :
        ~availableTokens[k].used /\ availableTokens[k].token = availableTokens[i].token} = {}

CheckPlace ==
    \E i \in 1..Len(availableTokens) :
        /\ activePopup = NoPopup
        /\ ~availableTokens[i].used
        /\ FirstOfItsText(i)
        /\ addToEquation(i)

CheckRun == activePopup = NoPopup /\ checkEquation

NextCheck == CheckPlace \/ CheckRun

SpecCheck == InitCheck /\ [][NextCheck]_vars

(***************************************************************************)
(* Random draws.  Math.random is a free choice; the model takes the draws  *)
(* from the sets below.                                                    *)
(***************************************************************************)
\* The numbers randInt(1, maxNumber) is taken to return: the MaxDraw
\* largest ones.
MaxDraw == 1
\* The iterations of shuffleArray that draw j freely: its last MaxSwaps
\* ones; the iterations before them are taken to draw j = i.
MaxSwaps == 1
\* The levels a round is generated for.
GenLevels == {1, 6}
\* The highest level of the game.
MaxLevel == 2
GameLevels == 1..MaxLevel
\* The highest score of the game.
MaxScore == 10
\* The largest target of a round the game is played on.
MaxTarget == 0
\* The player clicks one of the first MaxPick available pool tokens and one
\* of the last MaxUnpick entries of the equation.
MaxPick == 1
MaxUnpick == 1

\* randInt(1, maxNumber)
NumberDraws(maxNumber) == {n \in 1..maxNumber : n > maxNumber - MaxDraw}

\* [newArr[i], newArr[j]] = [newArr[j], newArr[i]]
Swap(arr, i, j) == [arr EXCEPT ![i] = arr[j], ![j] = arr[i]]

RECURSIVE ShuffleFrom(_, _, _)
\* The loop of shuffleArray from index i down (indices from 1): the arrays
\* it can end with.
ShuffleFrom(arr, i, swaps) ==
    IF i < 2 THEN {arr}
    ELSE UNION {ShuffleFrom(Swap(arr, i, j), i - 1, swaps) :
                   j \in IF i <= swaps + 1 THEN 1..i ELSE {i}}

\* The arrays shuffleArray(arr) can return.
shuffleArray(arr) == ShuffleFrom(arr, Len(arr), MaxSwaps)

\* The weights in percent.
getOperatorWeights(level) ==
    IF level <= 3 THEN [op \in {"+", "-", "*", "/"} |->
                           CASE op = "+" -> 50 [] op = "-" -> 30 [] op = "*" -> 15 [] op = "/" -> 5]
    ELSE IF level <= 6 THEN [op \in {"+", "-", "*", "/"} |->
                           CASE op = "+" -> 30 [] op = "-" -> 20 [] op = "*" -> 35 [] op = "/" -> 15]
    ELSE [op \in {"+", "-", "*", "/"} |->
                           CASE op = "+" -> 20 [] op = "-" -> 15 [] op = "*" -> 30 [] op = "/" -> 35]

\* The operators getWeightedRandomOperator(weights) can return: those a
\* random number in [0, 1) can select, and the '+' after the loop.
getWeightedRandomOperator(weights) ==
    {op \in DOMAIN weights : weights[op] > 0} \cup {"+"}

getTimerDurationForLevel(level) == Max(30, 60 + Max(0, 10 - (level - 1) * 2))

\* NumCount with the cap at three numbers.
NumCountCapThree(level) == Min(3 + (level - 1) \div 3, 3)

\* newRound: count (numCount is never passed) and maxNumber.
NumCount(level) == Min(3 + (level - 1) \div 3, 6)
MaxNumberOf(level) == Min(9, 3 + level \div 2)

(***************************************************************************)
(* buildRandomExpr, one iteration of its loop per step.                    *)
(***************************************************************************)
\* numbers.map(n => ({ expr: String(n), value: n }))
InitialItems(numbers) ==
    [k \in 1..Len(numbers) |-> [expr |-> <<DigitChar(numbers[k])>>, value |-> Int2Num(numbers[k])]]

\* OpDraws with the operator drawn at random whatever the queue holds.
OpDrawsAtRandom(queue) == Range(OPS)

\* opsCopy.shift() ?? OPS[Math.floor(Math.random() * OPS.length)]: the
\* operators the iteration can draw, and the queue after the shift.
OpDraws(queue) == IF queue = <<>> THEN Range(OPS) ELSE {Head(queue)}
Shifted(queue) == IF queue = <<>> THEN <<>> ELSE Tail(queue)

\* '(' + a.expr + op + b.expr + ')'
NewExpr(its, i, j, op, leftFirst) ==
    <<"(">> \o (IF leftFirst THEN its[i] ELSE its[j]).expr \o <<op>>
            \o (IF leftFirst THEN its[j] ELSE its[i]).expr \o <<")">>

\* The try block runs to its end: safeEval returned a finite number.
ReductionSucceeds(e) == ~e.thrown /\ IsFinite(e.v)

\* idxs.forEach(idx => items.splice(idx, 1)); items.push(...)
Reduced(its, i, j, newExpr, newVal) ==
    Append(Splice1(Splice1(its, Max(i, j)), Min(i, j)), [expr |-> newExpr, value |-> newVal])

\* The pairs (i, j) of an iteration: j is drawn again while it equals i.
IndexPairs(its) == {p \in (1..Len(its)) \X (1..Len(its)) : p[1] # p[2]}

GenOthersUnchanged ==
    UNCHANGED <<builderVars, puzzleVars, timerVars, hintVars, feedbackVars, roundVars,
                currentLevel, progressLoaded, gameStarted, solutionVisible, currentQuestionRef, idCount>>

\* The draws of an iteration: the pair, the operator, leftFirst.
Draws(its, queue) == IndexPairs(its) \X OpDraws(queue) \X BOOLEAN

\* The try block on the candidate newExpr: the list it leaves, if it runs to
\* its end (a set of one list, or of none).
ReducedTo(its, i, j, newExpr) ==
    {Reduced(its, i, j, newExpr, e.v) : e \in {ev \in {safeEval(newExpr)} : ReductionSucceeds(ev)}}

\* The same for the draws d.
ReducedBy(its, d) ==
    UNION {ReducedTo(its, d[1][1], d[1][2], newExpr) :
              newExpr \in {NewExpr(its, d[1][1], d[1][2], d[2], d[3])}}

\* An iteration whose try block runs to its end.
GenReduce ==
    /\ genPc = "loop"
    /\ Len(items) > 1
    /\ \E d \in Draws(items, opsCopy) : \E reduced \in ReducedBy(items, d) :
           /\ items' \in shuffleArray(reduced)
           /\ lastOp' = d[2]
    /\ opsCopy' = Shifted(opsCopy)
    /\ reductions' = reductions + 1
    /\ UNCHANGED genPc
    /\ GenOthersUnchanged

\* The draws whose iteration ends in the catch block.
FailingDraws(its, queue) == {d \in Draws(its, queue) : ReducedBy(its, d) = {}}

\* GenRetry without the unshift.
GenRetryDropsOperator ==
    /\ genPc = "loop"
    /\ Len(items) > 1
    /\ \E d \in FailingDraws(items, opsCopy) :
           /\ opsCopy' = Shifted(opsCopy)
           /\ lastOp' = d[2]
    /\ items' \in shuffleArray(items)
    /\ UNCHANGED <<genPc, reductions>>
    /\ GenOthersUnchanged

\* An iteration that ends in the catch block.
GenRetry ==
    /\ genPc = "loop"
    /\ Len(items) > 1
    /\ \E d \in FailingDraws(items, opsCopy) :
           /\ opsCopy' = <<d[2]>> \o Shifted(opsCopy)
           /\ lastOp' = d[2]
    /\ items' \in shuffleArray(items)
    /\ UNCHANGED <<genPc, reductions>>
    /\ GenOthersUnchanged

\* return items[0].expr
GenReturn ==
    /\ genPc = "loop"
    /\ Len(items) = 1
    /\ genPc' = "done"
    /\ UNCHANGED <<items, opsCopy, lastOp, reductions>>
    /\ GenOthersUnchanged

\* The arguments newRound passes at a level.
NumbersOf(level) == [1..NumCount(level) -> NumberDraws(MaxNumberOf(level))]
OpsOf(level) == [1..(NumCount(level) - 1) -> getWeightedRandomOperator(getOperatorWeights(level))]

(***************************************************************************)
(* SpecGen: buildRandomExpr on the arguments of one attempt of newRound.   *)
(***************************************************************************)
InitGen ==
    \E level \in GenLevels : \E numbers \in NumbersOf(level), ops \in OpsOf(level) :
        /\ score = 0
        /\ timeLeft = getTimerDurationForLevel(level)
        /\ currentLevel = level
        /\ gameStarted = TRUE
        /\ targetValue = Null
        /\ originalExpr = <<>>
        /\ originalTokens = <<>>
        /\ availableTokens = <<>>
        /\ equationTokens = <<>>
        /\ solutionVisible = FALSE
        /\ activePopup = NoPopup
        /\ wrongAnswerData = NoWrongAnswer
        /\ hint = Null
        /\ timerRef = TRUE
        /\ hintTimerRef = NoHintTimer
        /\ currentQuestionRef = Null
        /\ idCount = 0
        /\ tries = 1
        /\ roundPc = "loop"
        /\ items = InitialItems(numbers)
        /\ opsCopy = ops
        /\ lastOp = ""
        /\ genPc = "loop"
        /\ reductions = 0
        /\ progressLoaded = TRUE

NextGen == GenReduce \/ GenRetry \/ GenReturn

SpecGen == InitGen /\ [][NextGen]_vars

(***************************************************************************)
(* buildRandomExpr as a function: the expressions it can return.  The      *)
(* iterations are those of GenReduce; an iteration that fails leaves the   *)
(* list and the queue as they were, and a shuffle changes only the order   *)
(* of a list whose pair is drawn by index.                                 *)
(***************************************************************************)
RECURSIVE BuildFrom(_, _)
BuildFrom(its, queue) ==
    IF Len(its) = 1 THEN {its[1].expr}
    ELSE UNION {BuildFrom(reduced, Shifted(queue)) :
                   reduced \in UNION {ReducedBy(its, d) : d \in Draws(its, queue)}}

buildRandomExpr(numbers, ops) == BuildFrom(InitialItems(numbers), ops)

(***************************************************************************)
(* newRound, one attempt of its retry loop per step.                       *)
(***************************************************************************)
Rejected == [accepted |-> FALSE, expr |-> <<>>, target |-> 0]

\* Math.abs(rounded) > 1000
ExceedsTargetLimit(rounded) == rounded.k = "over" \/ Abs(rounded.n) > 1000

\* AttemptValue without the whole-number test of line 188.
AttemptValueNoWholeTest(expr, val, rounded) ==
    IF ~IsFinite(val) THEN Rejected
    ELSE IF ExceedsTargetLimit(rounded) THEN Rejected
    ELSE [accepted |-> TRUE, expr |-> expr, target |-> rounded.n]

\* The three tests of an attempt on the value of the expression.
AttemptValue(expr, val, rounded) ==
    IF ~IsFinite(val) THEN Rejected
    ELSE IF DiffersByMoreThanTolerance(val, rounded) THEN Rejected
    ELSE IF ExceedsTargetLimit(rounded) THEN Rejected
    ELSE [accepted |-> TRUE, expr |-> expr, target |-> rounded.n]

\* The try / catch of an attempt: e is what safeEval did.
AttemptEvaluated(expr, e) ==
    IF e.thrown THEN Rejected ELSE AttemptValue(expr, e.v, MathRound(e.v))

\* What an attempt does with the expression buildRandomExpr returned.
AttemptOutcome(expr) == AttemptEvaluated(expr, safeEval(expr))

\* The expressions an attempt at a level can get from buildRandomExpr.
AttemptExprs(level) ==
    UNION {buildRandomExpr(numbers, ops) : numbers \in NumbersOf(level), ops \in OpsOf(level)}

\* The outcomes of an attempt, level by level.
AttemptOutcomes ==
    [level \in GenLevels \cup GameLevels |-> {AttemptOutcome(expr) : expr \in AttemptExprs(level)}]

\* while (tries < ATTEMPT_LIMIT) with one attempt fewer.
AttemptsLeftOneFewer(t) == t < ATTEMPT_LIMIT - 1
\* while (tries < ATTEMPT_LIMIT)
AttemptsLeft(t) == t < ATTEMPT_LIMIT

\* startTimer(seconds)
startTimer(seconds) ==
    /\ timeLeft' = seconds
    /\ timerRef' = TRUE

\* The statements of newRound ahead of the loop.
RoundHead(level) ==
    /\ startTimer(getTimerDurationForLevel(level))
    /\ equationTokens' = <<>>
    /\ solutionVisible' = FALSE
    /\ hint' = Null
    /\ activePopup' = NoPopup

\* setOriginalExpr, setOriginalTokens, setTargetValue
SetPuzzle(expr, tokens, target) ==
    /\ originalExpr' = expr
    /\ originalTokens' = tokens
    /\ targetValue' = Some(target)

\* setAvailableTokens(shuffleArray(tokens.map(...))): the ids of a pool are
\* counted from one.
SetPool(tokens) ==
    /\ availableTokens' \in shuffleArray(MakePool(tokens, 0))
    /\ idCount' = Len(tokens)

\* currentQuestionRef.current = {...}
SetQuestion(expr, tokens, target, count) ==
    currentQuestionRef' = Some([originalExpr |-> expr, originalTokens |-> tokens,
                                targetValue |-> target, numCount |-> count])

FallbackExpr == <<"(", "3", "+", "4", ")", "*", "2">>

\* EmitFallback without the new pool.
EmitFallbackKeepsPool ==
    /\ SetPuzzle(FallbackExpr, tokenize(FallbackExpr), 14)
    /\ UNCHANGED <<availableTokens, idCount, currentQuestionRef>>

\* Lines 211-218: the fallback.
EmitFallback ==
    /\ SetPuzzle(FallbackExpr, tokenize(FallbackExpr), 14)
    /\ SetPool(tokenize(FallbackExpr))
    /\ UNCHANGED currentQuestionRef

\* newRound is entered.
RoundEnter ==
    /\ roundPc = "idle"
    /\ RoundHead(currentLevel)
    /\ tries' = 0
    /\ roundPc' = "loop"
    /\ UNCHANGED <<puzzleVars, availableTokens, idCount, currentQuestionRef, genVars,
                   score, wrongAnswerData, hintTimerRef, currentLevel, progressLoaded, gameStarted>>

RoundLoopUnchanged ==
    UNCHANGED <<timerVars, hintVars, feedbackVars, genVars, equationTokens,
                solutionVisible, currentLevel, progressLoaded, gameStarted>>

\* An attempt that ends in a continue.
RoundAttemptRejected ==
    /\ roundPc = "loop"
    /\ AttemptsLeft(tries)
    /\ Rejected \in AttemptOutcomes[currentLevel]
    /\ tries' = tries + 1
    /\ UNCHANGED <<roundPc, puzzleVars, availableTokens, idCount, currentQuestionRef>>
    /\ RoundLoopUnchanged

\* An attempt that passes the tests: lines 178-197 less the pool.  The loop
\* is left and tries is out of use.
RoundAttemptAccepted ==
    /\ roundPc = "loop"
    /\ AttemptsLeft(tries)
    /\ \E o \in AttemptOutcomes[currentLevel] :
           /\ o.accepted
           /\ SetPuzzle(o.expr, tokenize(o.expr), o.target)
    /\ tries' = 0
    /\ roundPc' = "accepted"
    /\ UNCHANGED <<availableTokens, idCount, currentQuestionRef>>
    /\ RoundLoopUnchanged

\* Lines 193 and 198-205 of the accepted attempt: the pool, the question
\* record and the return.
RoundStorePool ==
    /\ roundPc = "accepted"
    /\ SetPool(originalTokens)
    /\ SetQuestion(originalExpr, originalTokens, targetValue[1], NumCount(currentLevel))
    /\ roundPc' = "done"
    /\ UNCHANGED <<tries, puzzleVars>>
    /\ RoundLoopUnchanged

\* The loop ends with no attempt accepted.
RoundFallback ==
    /\ roundPc = "loop"
    /\ ~AttemptsLeft(tries)
    /\ EmitFallback
    /\ tries' = 0
    /\ roundPc' = "done"
    /\ RoundLoopUnchanged

(***************************************************************************)
(* SpecRound: one call of newRound at a level.                              *)
(***************************************************************************)
InitRound ==
    \E level \in GenLevels :
        /\ score = 0
        /\ timeLeft = 60
        /\ currentLevel = level
        /\ gameStarted = TRUE
        /\ targetValue = Null
        /\ originalExpr = <<>>
        /\ originalTokens = <<>>
        /\ availableTokens = <<>>
        /\ equationTokens = <<>>
        /\ solutionVisible = FALSE
        /\ activePopup = NoPopup
        /\ wrongAnswerData = NoWrongAnswer
        /\ hint = Null
        /\ timerRef = FALSE
        /\ hintTimerRef = NoHintTimer
        /\ currentQuestionRef = Null
        /\ idCount = 0
        /\ tries = 0
        /\ roundPc = "idle"
        /\ items = <<>>
        /\ opsCopy = <<>>
        /\ lastOp = ""
        /\ genPc = "idle"
        /\ reductions = 0
        /\ progressLoaded = TRUE

NextRound ==
    RoundEnter \/ RoundAttemptRejected \/ RoundAttemptAccepted \/ RoundStorePool \/ RoundFallback

SpecRound == InitRound /\ [][NextRound]_vars

(***************************************************************************)
(* The game: every handler of the component as one step.  A handler reads  *)
(* the state of the latest render and its updates take effect together.    *)
(***************************************************************************)
\* How a call of newRound at a level can end: with an attempt accepted (of
\* these, the game is played on the rounds with a target of at most
\* MaxTarget in absolute value), or, if an attempt can be rejected, with
\* every attempt rejected.
RoundOutcomes ==
    [level \in GameLevels |->
        {o \in AttemptOutcomes[level] : o.accepted => Abs(o.target) <= MaxTarget}]

\* Lines 192-205 for the accepted attempt o.
EmitAccepted(o, count) ==
    /\ SetPuzzle(o.expr, tokenize(o.expr), o.target)
    /\ SetPool(tokenize(o.expr))
    /\ SetQuestion(o.expr, tokenize(o.expr), o.target, count)

\* newRound, called by a handler that saw the level `level`.
newRound(level) ==
    /\ RoundHead(level)
    /\ \E o \in RoundOutcomes[level] :
           IF o.accepted THEN EmitAccepted(o, NumCount(level)) ELSE EmitFallback

\* What newRound leaves alone, its caller's updates apart.
NewRoundLeaves ==
    UNCHANGED <<score, wrongAnswerData, hintTimerRef, roundVars, genVars, progressLoaded>>

\* The replies to /get_progress: a level, or 0 for a reply that sets none.
SavedReplies == 0..MaxLevel

\* The request of the mount effect resolves.
loadSavedProgress ==
    /\ ~progressLoaded
    /\ progressLoaded' = TRUE
    /\ \E reply \in SavedReplies : currentLevel' = IF reply = 0 THEN currentLevel ELSE reply
    /\ UNCHANGED <<builderVars, puzzleVars, timerVars, hintVars, feedbackVars, roundVars,
                   genVars, gameStarted, solutionVisible, currentQuestionRef, idCount>>

\* "Start Game" of the welcome popup.
startGame ==
    /\ activePopup = "welcome"
    /\ gameStarted' = TRUE
    /\ newRound(currentLevel)
    /\ UNCHANGED currentLevel
    /\ NewRoundLeaves

\* "+ New Round"
NewRoundClick ==
    /\ gameStarted
    /\ newRound(currentLevel)
    /\ UNCHANGED <<currentLevel, gameStarted>>
    /\ NewRoundLeaves

\* "Next Level" of the correct popup: newRound runs with the level the
\* handler saw.
nextLevel ==
    /\ activePopup = "correct"
    /\ currentLevel < MaxLevel
    /\ currentLevel' = currentLevel + 1
    /\ newRound(currentLevel)
    /\ UNCHANGED gameStarted
    /\ NewRoundLeaves

\* ReplayQuestion with the target of the round on the screen kept.
ReplayQuestionKeepsTarget(q) ==
    /\ startTimer(getTimerDurationForLevel(currentLevel))
    /\ SetPuzzle(q.originalExpr, q.originalTokens, targetValue[1])
    /\ SetPool(q.originalTokens)
    /\ equationTokens' = <<>>
    /\ solutionVisible' = FALSE
    /\ activePopup' = NoPopup
    /\ UNCHANGED <<hint, currentQuestionRef>>

\* replayCurrentQuestion with a question record q.
ReplayQuestion(q) ==
    /\ startTimer(getTimerDurationForLevel(currentLevel))
    /\ SetPuzzle(q.originalExpr, q.originalTokens, q.targetValue)
    /\ SetPool(q.originalTokens)
    /\ equationTokens' = <<>>
    /\ solutionVisible' = FALSE
    /\ activePopup' = NoPopup
    /\ UNCHANGED <<hint, currentQuestionRef>>

\* "Replay" of the time-up popup.
replayCurrentQuestion ==
    /\ activePopup = "timeUp"
    /\ IF currentQuestionRef = Null
       THEN newRound(currentLevel)
       ELSE ReplayQuestion(currentQuestionRef[1])
    /\ UNCHANGED <<currentLevel, gameStarted>>
    /\ NewRoundLeaves

\* The pool tokens the player is taken to click: the first MaxPick
\* available ones.
PickChoices ==
    {i \in 1..Len(availableTokens) :
        /\ ~availableTokens[i].used
        /\ Cardinality({k \in 1..(i - 1) : ~availableTokens[k].used}) < MaxPick}

\* onClick={() => !t.used && addToEquation(i)}
PoolClick == \E i \in PickChoices : addToEquation(i)

\* The entries the player is taken to click: the last MaxUnpick ones.
UnpickChoices == {i \in 1..Len(equationTokens) : i > Len(equationTokens) - MaxUnpick}

\* onClick={() => removeFromEquation(i)}
EquationClick == \E i \in UnpickChoices : removeFromEquation(i)

\* "Reset"
ResetClick == gameStarted /\ resetEquation

\* "Solution"
SolutionClick == gameStarted /\ revealSolution

\* CheckClick with the button rendered whatever the equation is.
CheckClickAlways ==
    /\ gameStarted
    /\ score < MaxScore
    /\ checkEquation

\* "Check Solution", rendered when allTokensUsed && !solutionVisible.
CheckClick ==
    /\ allTokensUsed
    /\ ~solutionVisible
    /\ score < MaxScore
    /\ checkEquation

\* "Try Again" of the wrong-answer popup.
TryAgainClick ==
    /\ activePopup = "wrongAnswer"
    /\ activePopup' = NoPopup
    /\ UNCHANGED <<builderVars, puzzleVars, timerVars, hintVars, roundVars, genVars,
                   score, wrongAnswerData, currentLevel, progressLoaded, gameStarted,
                   solutionVisible, currentQuestionRef, idCount>>

TimerLeaves ==
    UNCHANGED <<builderVars, puzzleVars, hintVars, roundVars, genVars, score,
                wrongAnswerData, currentLevel, progressLoaded, gameStarted, solutionVisible,
                currentQuestionRef, idCount>>

\* The interval callback while prev > 1: the callbacks down to the last
\* second are taken together.
TimerCountsDown ==
    /\ timerRef
    /\ timeLeft > 1
    /\ timeLeft' = 1
    /\ UNCHANGED <<timerRef, activePopup>>
    /\ TimerLeaves

\* The interval callback with prev <= 1.
TimerExpires ==
    /\ timerRef
    /\ timeLeft <= 1
    /\ timeLeft' = 0
    /\ timerRef' = FALSE
    /\ activePopup' = "timeUp"
    /\ TimerLeaves

Init == Constructed

\* The handlers that write the puzzle, the pool, the equation, the score, the
\* popups or the countdown.  showHintShort writes hint and hintTimerRef only
\* and reads originalExpr and originalTokens only; its steps are those of
\* SpecHint.
Next ==
    \/ loadSavedProgress
    \/ startGame
    \/ NewRoundClick
    \/ nextLevel
    \/ replayCurrentQuestion
    \/ PoolClick
    \/ EquationClick
    \/ ResetClick
    \/ SolutionClick
    \/ CheckClick
    \/ TryAgainClick
    \/ TimerCountsDown
    \/ TimerExpires

Spec == Init /\ [][Next]_vars

(***************************************************************************)
(* SpecVerdict: checkEquation on the fallback puzzle in different          *)
(* surroundings.  The score, the level, the countdown and the order of the *)
(* pool are drawn, any arrangement of any part of the pool is placed, and  *)
(* checkEquation runs on it once.                                          *)
(***************************************************************************)
\* The surroundings a round on the fallback puzzle can be played in.
VerdictScores == {0, 10}
VerdictLevels == {1, 2}
VerdictTimes(level) == {getTimerDurationForLevel(level), 1}

InitVerdict ==
    \E s \in VerdictScores, level \in VerdictLevels :
        \E t \in VerdictTimes(level) :
            /\ score = s
            /\ timeLeft = t
            /\ currentLevel = level
            /\ gameStarted = TRUE
            /\ targetValue = Some(14)
            /\ originalExpr = FallbackExpr
            /\ originalTokens = tokenize(FallbackExpr)
            /\ availableTokens \in shuffleArray(MakePool(tokenize(FallbackExpr), 0))
            /\ equationTokens = <<>>
            /\ solutionVisible = FALSE
            /\ activePopup = NoPopup
            /\ wrongAnswerData = NoWrongAnswer
            /\ hint = Null
            /\ timerRef = TRUE
            /\ hintTimerRef = NoHintTimer
            /\ currentQuestionRef = Null
            /\ idCount = Len(tokenize(FallbackExpr))
            /\ tries = 0
            /\ roundPc = "idle"
            /\ items = <<>>
            /\ opsCopy = <<>>
            /\ lastOp = ""
            /\ genPc = "idle"
            /\ reductions = 0
            /\ progressLoaded = TRUE

SpecVerdict == InitVerdict /\ [][NextCheck]_vars

(***************************************************************************)
(* SpecHint: the hint.  The game is started, rounds are generated, hints   *)
(* are asked for, the seconds of the hint timeout pass, the solution is    *)
(* revealed and the equation reset, and the time of a round runs out and   *)
(* the round is replayed.                                                  *)
(***************************************************************************)
\* "Hint", rendered with the other action buttons.
HintClick == gameStarted /\ showHintShort

NextHint ==
    \/ startGame
    \/ NewRoundClick
    \/ HintClick
    \/ HintSecondPasses
    \/ SolutionClick
    \/ ResetClick
    \/ TimerCountsDown
    \/ TimerExpires
    \/ replayCurrentQuestion

SpecHint == Init /\ [][NextHint]_vars

(***************************************************************************)
(* What the claims about the checker are stated with: the text that was    *)
(* checked, the verdict that is shown, and the value school arithmetic     *)
(* gives a well-formed text.                                               *)
(***************************************************************************)
\* checkEquation has run (SpecCheck starts with no popup).
Checked == activePopup \in {"wrongAnswer", "correct"}
CheckedText == ExprStr(equationTokens)
Verdict ==
    IF activePopup = "correct" THEN "Correct"
    ELSE IF wrongAnswerData.message = MsgInvalid THEN "InvalidGrammar"
    ELSE IF wrongAnswerData.message = MsgUnbalanced THEN "UnbalancedParens"
    ELSE IF wrongAnswerData.message = MsgCannot THEN "EvaluationError"
    ELSE IF wrongAnswerData.message = MsgNotWhole THEN "NotWholeNumber"
    ELSE IF wrongAnswerData.message = MsgWrong THEN "WrongAnswer"
    ELSE "none"

NonBlank(c) == c # " "
HasOnlyGrammarChars(s) == s # <<>> /\ \A k \in 1..Len(s) : s[k] \in AllowedChars
Count(s, c, upto) == Cardinality({k \in 1..upto : s[k] = c})
Balanced(s) ==
    /\ \A k \in 1..Len(s) : Count(s, "(", k) >= Count(s, ")", k)
    /\ Count(s, "(", Len(s)) = Count(s, ")", Len(s))

\* Depth of position k: the parentheses open before it.
DepthAt(s, k) == Count(s, "(", k - 1) - Count(s, ")", k - 1)
TopLevel(s, cs) == {k \in 1..Len(s) : s[k] \in cs /\ DepthAt(s, k) = 0}
Last(S) == CHOOSE k \in S : \A h \in S : h <= k

Undefined == [ok |-> FALSE, n |-> 0, d |-> 1]
Fraction(a, b) ==
    LET g == Gcd(Abs(a), Abs(b))
    IN [ok |-> TRUE, n |-> (Sign(b) * a) \div g, d |-> Abs(b) \div g]

RECURSIVE SchoolValue(_)
\* The value of a text of the grammar  E ::= E+T | E-T | T,  T ::= T*F | T/F | F,
\* F ::= digits | (E)  as a fraction; Undefined for any other text and for a
\* division by zero.
SchoolValue(s) ==
    LET adds == TopLevel(s, {"+", "-"})
        muls == TopLevel(s, {"*", "/"})
        k == IF adds # {} THEN Last(adds) ELSE Last(muls)
        l == SchoolValue(SubSeq(s, 1, k - 1))
        r == SchoolValue(SubSeq(s, k + 1, Len(s)))
    IN IF s = <<>> THEN Undefined
       ELSE IF Range(s) \subseteq Digits
       THEN (IF Len(s) > 1 /\ s[1] = "0" THEN Undefined ELSE Fraction(DecimalValue(s), 1))
       ELSE IF adds # {} \/ muls # {}
       THEN IF ~l.ok \/ ~r.ok THEN Undefined
            ELSE IF s[k] = "+" THEN Fraction(l.n * r.d + r.n * l.d, l.d * r.d)
            ELSE IF s[k] = "-" THEN Fraction(l.n * r.d - r.n * l.d, l.d * r.d)
            ELSE IF s[k] = "*" THEN Fraction(l.n * r.n, l.d * r.d)
            ELSE IF r.n = 0 THEN Undefined
            ELSE Fraction(l.n * r.d, l.d * r.n)
       ELSE IF s[1] = "(" /\ s[Len(s)] = ")" THEN SchoolValue(SubSeq(s, 2, Len(s) - 1))
       ELSE Undefined

\* floor(n/d + 1/2)
NearestInteger(f) == (2 * f.n + f.d) \div (2 * f.d)

C7_VerdictIsTheValue ==
    LET f == SchoolValue(CheckedText)
    IN (Checked /\ f.ok) =>
          IF f.d # 1 THEN Verdict = "NotWholeNumber"
          ELSE IF Some(NearestInteger(f)) = targetValue
               THEN Verdict = "Correct" /\ score = 10
               ELSE /\ Verdict = "WrongAnswer"
                    /\ wrongAnswerData.result = Some(Int2Num(NearestInteger(f)))

\* "3+4*2" was checked against 14 and is WrongAnswer(11).
C7_Witness ==
    /\ Checked
    /\ CheckedText = <<"3", "+", "4", "*", "2">>
    /\ targetValue = Some(14)
    /\ Verdict = "WrongAnswer"
    /\ wrongAnswerData.result = Some(Int2Num(11))

(***************************************************************************)
(* C8: an equation that uses every token and whose evaluation is not       *)
(* finite is an EvaluationError: no verdict carries an infinity or NaN.    *)
(***************************************************************************)
NonFinite(e) == ~e.thrown /\ e.v.k \in {"inf", "nan"}

C8_NoNonFiniteVerdict ==
    (Checked /\ allTokensUsed /\ NonFinite(safeEval(CheckedText)))
    => (Verdict = "EvaluationError" /\ wrongAnswerData.result = Null)

(***************************************************************************)
(* Claims about buildRandomExpr (SpecGen).                                 *)
(***************************************************************************)
\* No draw of the next iteration reduces the working list.
Stuck ==
    /\ genPc = "loop"
    /\ Len(items) > 1
    /\ FailingDraws(items, opsCopy) = Draws(items, opsCopy)

\* C9: buildRandomExpr terminates: no working list is reached from which no
\* draw of item pair and operand order gives a successful reduction.
C9_NoStuckWorkingSet == ~Stuck

(***************************************************************************)
(* Claims about newRound (SpecRound).                                      *)
(***************************************************************************)
\* newRound has returned.
Emitted == roundPc = "done"

\* The number x is within 1e-9 of the integer t (the denominators of the
\* model are below 1e9).
WithinTolerance(x, t) == x.k = "num" /\ Abs(x.n - t * x.d) <= x.d \div 1000000000

EvaluatesTo(e, t) == ~e.thrown /\ WithinTolerance(e.v, t)

\* C4: every puzzle newRound emits, accepted or fallback, has an expression
\* whose value is finite and within 1e-9 of the stored integer target, and
\* the target is at most 1000 in absolute value.
C4_EmittedPuzzleIsValid ==
    Emitted =>
        /\ targetValue # Null
        /\ EvaluatesTo(safeEval(originalExpr), targetValue[1])
        /\ Abs(targetValue[1]) <= 1000

\* An accepted puzzle with a division has been emitted.
C4_Witness ==
    /\ Emitted
    /\ originalExpr # FallbackExpr
    /\ "/" \in Range(originalExpr)
    /\ targetValue = Some(6)

\* The token texts of a pool, and the bag of a sequence of texts.
PoolTexts(pool) == [k \in 1..Len(pool) |-> pool[k].token]
TextBag(texts) ==
    [t \in Range(texts) |-> Cardinality({k \in 1..Len(texts) : texts[k] = t})]

\* The fallback puzzle is what the next state holds, with nothing shown.
FallbackEmitted ==
    /\ originalExpr' = <<"(", "3", "+", "4", ")", "*", "2">>
    /\ targetValue' = Some(14)
    /\ TextBag(PoolTexts(availableTokens')) =
           TextBag(<<(<<"(">>), (<<"3">>), (<<"+">>), (<<"4">>), (<<")">>), (<<"*">>), (<<"2">>)>>)
    /\ \A k \in 1..Len(availableTokens') : ~availableTokens'[k].used
    /\ CheckResult(Join(originalTokens'), targetValue').popup = "correct"
    /\ activePopup' = NoPopup
    /\ wrongAnswerData' = wrongAnswerData

FallbackStep ==
    /\ tries' <= 400
    /\ (roundPc = "loop" /\ tries = 400) => (roundPc' = "done" /\ FallbackEmitted)
    /\ (roundPc = "loop" /\ roundPc' = "done") => tries = 400
    /\ (roundPc = "loop" /\ tries < 400) => originalExpr' # FallbackExpr

\* C5: newRound makes at most 400 attempts; when all 400 are rejected it
\* emits the fallback puzzle (3+4)*2 with target 14 and a pool of exactly
\* its tokens, which check as Correct in their original order, and shows
\* no error; the fallback is emitted in no other case.
C5_FallbackAfterLimit == [][FallbackStep]_vars

\* The fallback puzzle has been emitted.
C5_Witness ==
    /\ Emitted
    /\ originalExpr = FallbackExpr
    /\ currentQuestionRef = Null

(***************************************************************************)
(* Claims about the pool and the equation sequence (Spec).                 *)
(***************************************************************************)
\* C1: in every reachable state the token texts of the pool, available and
\* used together, are as a multiset the token texts of the puzzle's
\* original token sequence.
C1_TokensConserved == TextBag(PoolTexts(availableTokens)) = TextBag(originalTokens)

\* A second round, at level 2, with the solution revealed and an entry
\* taken off again.
C1_Witness ==
    /\ currentLevel = 2
    /\ score = 10
    /\ solutionVisible
    /\ equationTokens # <<>>
    /\ Len(equationTokens) < Len(availableTokens)

EquationIds == {equationTokens[j].id : j \in 1..Len(equationTokens)}
UsedIndices == {k \in 1..Len(availableTokens) : availableTokens[k].used}

\* C2: a pool token's id is in the equation sequence if and only if the
\* token is marked used, no id is twice in the sequence, and the sequence
\* is as long as the number of pool tokens marked used.
C2_SequenceMatchesUsed ==
    /\ \A k \in 1..Len(availableTokens) :
           availableTokens[k].used <=> availableTokens[k].id \in EquationIds
    /\ Cardinality(EquationIds) = Len(equationTokens)
    /\ Len(equationTokens) = Cardinality(UsedIndices)

\* Some tokens are placed and some are not, and a placed one and an
\* available one have the same text.
C2_Witness ==
    /\ equationTokens # <<>>
    /\ \E k \in UsedIndices : \E h \in 1..Len(availableTokens) :
           /\ ~availableTokens[h].used
           /\ availableTokens[h].token = availableTokens[k].token

\* The sequence after place(i), and the pool after place(i) followed by
\* the unplace of the last entry.
PlacedEquation(i) == EquationAfterAdd(availableTokens, equationTokens, i)
PlacedThenUnplacedPool(i) ==
    PoolAfterRemove(PoolAfterAdd(availableTokens, i),
                    PlacedEquation(i)[Len(PlacedEquation(i))])

\* C3: for every available pool token i, place(i) followed by the unplace
\* of the entry just appended gives back the pool and the sequence as they
\* were.
C3_UnplaceUndoesPlace ==
    \A i \in 1..Len(availableTokens) :
        ~availableTokens[i].used =>
            /\ PlacedThenUnplacedPool(i) = availableTokens
            /\ Splice1(PlacedEquation(i), Len(PlacedEquation(i))) = equationTokens

\* An available token has a placed twin of the same text, in a sequence of
\* more than one entry.
C3_Witness ==
    /\ Len(equationTokens) > 1
    /\ ~solutionVisible
    /\ \E i \in 1..Len(availableTokens) : \E k \in UsedIndices :
           /\ ~availableTokens[i].used
           /\ availableTokens[k].token = availableTokens[i].token

\* What revealSolution computes in this state.
Revealed == RevealFrom(originalTokens, 1, AllUnused(availableTokens), <<>>, idCount)

PoolId(pool, id) == {k \in 1..Len(pool) : pool[k].id = id}

RevealedAsOriginal(r) ==
    /\ [k \in 1..Len(r.eq) |-> r.eq[k].token] = originalTokens
    /\ ExprStr(r.eq) = originalExpr
    /\ \A k \in 1..Len(r.eq) : \E h \in PoolId(availableTokens, r.eq[k].id) :
           availableTokens[h].token = r.eq[k].token
    /\ Cardinality({r.eq[k].id : k \in 1..Len(r.eq)}) = Len(r.eq)
    /\ r.ids = idCount
    /\ \A k \in 1..Len(r.pool) : r.pool[k].used

\* C10: from every reachable state revealSolution gives a sequence whose
\* texts are the original token sequence in order, each entry a pool token
\* of its own, none synthesized, and marks every pool token used.
C10_RevealRestoresOriginal == RevealedAsOriginal(Revealed)

\* The solution has been revealed on a pool that is not in the original
\* order.
C10_Witness ==
    /\ solutionVisible
    /\ originalTokens # <<>>
    /\ equationTokens = Revealed.eq
    /\ PoolTexts(availableTokens) # originalTokens

(***************************************************************************)
(* Claims about what checkEquation and the builder handlers leave alone.   *)
(***************************************************************************)
\* What checkEquation is not to touch after a verdict other than Correct:
\* everything but the popup and the message record.
AllButFeedback ==
    <<puzzleVars, builderVars, score, solutionVisible, currentLevel, gameStarted, timerVars,
      hintVars, currentQuestionRef, idCount>>

\* C11: a run of checkEquation whose verdict is not Correct leaves the
\* puzzle (expression, original tokens, target), the pool and the equation
\* sequence as they were, and changes only the popup and the message record.
\* (Under SpecCheck the wrong-answer popup is opened by checkEquation only.)
C11_FailedCheckIsRecoverable ==
    [][activePopup' = "wrongAnswer" => UNCHANGED AllButFeedback]_vars

\* Each of the five verdicts other than Correct has been given on a full
\* equation: here the wrong whole number.
C11_Witness ==
    /\ activePopup = "wrongAnswer"
    /\ wrongAnswerData.message = MsgWrong
    /\ allTokensUsed
    /\ targetValue = Some(14)

\* A step of checkEquation: the only handler that opens the wrong-answer or
\* the correct popup, writes the message record or raises the score.
CheckStep ==
    /\ activePopup' \in {"wrongAnswer", "correct"}
    /\ UNCHANGED <<builderVars, puzzleVars>>
    /\ <<activePopup, wrongAnswerData, score>>' # <<activePopup, wrongAnswerData, score>>

\* The outcome of a run of checkEquation: the verdict and the reported text
\* and value.
OutcomeShown == <<Verdict, IF activePopup = "correct" THEN Null ELSE Some(wrongAnswerData)>>

\* The outcome as a function of the equation text and the target alone.
VerdictOf(r) ==
    IF r.scored THEN "Correct"
    ELSE IF r.data[1].message = MsgInvalid THEN "InvalidGrammar"
    ELSE IF r.data[1].message = MsgUnbalanced THEN "UnbalancedParens"
    ELSE IF r.data[1].message = MsgCannot THEN "EvaluationError"
    ELSE IF r.data[1].message = MsgNotWhole THEN "NotWholeNumber"
    ELSE "WrongAnswer"
OutcomeOf(text, target) ==
    <<VerdictOf(CheckResult(text, target)), CheckResult(text, target).data>>

OneHintOneTimer ==
    /\ Len(hintTimerRef.pending) <= 1
    /\ hint # Null => Len(hintTimerRef.pending) = 1
    /\ \A k \in 1..Len(hintTimerRef.pending) : hintTimerRef.pending[k] \in 1..HINT_SECONDS

\* A step that sets a hint, a new one or the same text again.
HintRequested ==
    /\ hint' # Null
    /\ (hint' # hint \/ Len(hintTimerRef'.pending) > Len(hintTimerRef.pending))

TimesPlaced(k) ==
    Cardinality({j \in 1..Len(equationTokens) : equationTokens[j].id = availableTokens[k].id})

\* C14: checkEquation runs, and so a Correct verdict is given and the score
\* raised, only when the equation sequence holds every pool token exactly
\* once (it is as long as the pool and not empty) and the solution is not
\* revealed.
C14_CheckOnlyOnFullEquation ==
    [][CheckStep =>
          /\ Len(equationTokens) = Len(availableTokens)
          /\ Len(equationTokens) > 0
          /\ \A k \in 1..Len(availableTokens) : TimesPlaced(k) = 1
          /\ ~solutionVisible]_vars

\* Correct has been given and the score raised.
C14_Witness ==
    /\ activePopup = "correct"
    /\ score = 10
    /\ allTokensUsed
    /\ ~solutionVisible
    /\ currentLevel = 1

(***************************************************************************)
(* Claims about the size of a generated puzzle (SpecRound).                *)
(***************************************************************************)
\* The levels the two formulas are compared on.
MaxCheckedLevel == 40

\* The count and the cap as the claim gives them.
ClaimedCount(L) == Min(3 + (L - 1) \div 3, 6)
ClaimedCap(L) == Min(9, 3 + L \div 2)

IsIntegerToken(tok) == tok # <<>> /\ \A k \in 1..Len(tok) : tok[k] \in Digits
IsOperatorToken(tok) == Len(tok) = 1 /\ tok[1] \in Range(OPS)
TokensThat(Test(_)) == {k \in 1..Len(originalTokens) : Test(originalTokens[k])}
IsOpenParen(tok) == tok = <<"(">>
IsCloseParen(tok) == tok = <<")">>
RECURSIVE TokenValue(_)
TokenValue(tok) == IF tok = <<>> THEN 0 ELSE 10 * TokenValue(SubSeq(tok, 1, Len(tok) - 1)) + DigitVal(tok[Len(tok)])

\* C15: a generated (non-fallback) puzzle of level L has exactly
\* count = min(3 + floor((L-1)/3), 6) integer tokens, each in
\* [1, min(9, 3 + floor(L/2))], count-1 operator tokens and count-1 pairs of
\* parentheses, and so a pool of 4*count-3 tokens; count is between 3 and 6
\* at every level.
C15_PuzzleSizeFollowsLevel ==
    /\ \A L \in 1..MaxCheckedLevel :
           /\ NumCount(L) = ClaimedCount(L)
           /\ NumCount(L) \in 3..6
           /\ MaxNumberOf(L) = ClaimedCap(L)
    /\ (Emitted /\ originalExpr # FallbackExpr) =>
           /\ Cardinality(TokensThat(IsIntegerToken)) = ClaimedCount(currentLevel)
           /\ \A k \in TokensThat(IsIntegerToken) :
                  TokenValue(originalTokens[k]) \in 1..ClaimedCap(currentLevel)
           /\ Cardinality(TokensThat(IsOperatorToken)) = ClaimedCount(currentLevel) - 1
           /\ Cardinality(TokensThat(IsOpenParen)) = ClaimedCount(currentLevel) - 1
           /\ Cardinality(TokensThat(IsCloseParen)) = ClaimedCount(currentLevel) - 1
           /\ balancedParens(originalExpr)
           /\ Len(originalTokens) = 4 * ClaimedCount(currentLevel) - 3
           /\ Len(availableTokens) = 4 * ClaimedCount(currentLevel) - 3

\* A puzzle of four numbers has been generated at level 6.
C15_Witness ==
    /\ Emitted
    /\ originalExpr # FallbackExpr
    /\ currentLevel = 6
    /\ Len(availableTokens) = 13

\* A step of the handler that changes the puzzle record.
PlaceWritesPuzzle ==
    (\E i \in 1..Len(availableTokens) : addToEquation(i)) /\ puzzleVars' # puzzleVars
UnplaceWritesPuzzle ==
    (\E j \in 1..Len(equationTokens) : removeFromEquation(j)) /\ puzzleVars' # puzzleVars
ResetWritesPuzzle == resetEquation /\ puzzleVars' # puzzleVars
HintWritesPuzzle == showHintShort /\ puzzleVars' # puzzleVars

\* No step of place, unplace, reset or hint that the state allows changes
\* the puzzle record.
PuzzleIsReadOnly ==
    /\ ~ENABLED PlaceWritesPuzzle
    /\ ~ENABLED UnplaceWritesPuzzle
    /\ ~ENABLED ResetWritesPuzzle
    /\ ~ENABLED HintWritesPuzzle

\* The three fields of the puzzle record belong together: the tokens are
\* those of the expression and the target is its value.
PuzzleIsOneRecord ==
    /\ originalTokens = tokenize(originalExpr)
    /\ targetValue # Null
    /\ EvaluatesTo(safeEval(originalExpr), targetValue[1])

\* A round begins: what new round, replay and level advance have in common.
\* A step of checkEquation leaves a popup open and a step of revealSolution
\* leaves the solution visible, so neither is one.
RoundBegins ==
    /\ equationTokens' = <<>>
    /\ ~solutionVisible'
    /\ activePopup' = NoPopup
    /\ timerRef'
    /\ \A k \in 1..Len(availableTokens') : ~availableTokens'[k].used

\* C16: place, unplace, reset, check, hint and revealSolution leave the
\* puzzle record (expression, original tokens, target) as it is; it changes
\* only when a round begins (new round, replay, level advance), and then the
\* three fields are written together, as one puzzle.
C16_PuzzleReadOnlyBetweenRounds ==
    /\ []PuzzleIsReadOnly
    /\ [][puzzleVars' # puzzleVars => RoundBegins]_vars
    /\ [](originalExpr # <<>> => PuzzleIsOneRecord)

\* A round on the puzzle of the question record, begun after a Correct
\* verdict, is near its end and the player has placed a token.
C16_Witness ==
    /\ currentQuestionRef # Null
    /\ originalExpr = currentQuestionRef[1].originalExpr
    /\ originalExpr # FallbackExpr
    /\ equationTokens # <<>>
    /\ timeLeft = 1
    /\ score = 10

\* A step of addToEquation(i) that changes anything.
PlaceChanges(i) == addToEquation(i) /\ vars' # vars

\* C17: addToEquation on a pool token that is marked used returns without a
\* change: the pool and the equation sequence (and all else) stay as they
\* are, so placing the same index again does not put the token in the
\* sequence twice.
C17_PlaceOnUsedIsNoOp ==
    \A i \in 1..Len(availableTokens) :
        availableTokens[i].used => ENABLED addToEquation(i) /\ ~ENABLED PlaceChanges(i)

\* The first two tokens of the pool have been placed by the player.
C17_Witness ==
    /\ Len(equationTokens) = 2
    /\ ~solutionVisible
    /\ availableTokens[1].used
    /\ availableTokens[2].used
    /\ equationTokens[1].id = availableTokens[1].id

\* The pool tokens that have the id of the j-th entry of the sequence.
PoolTokensOf(j) == {k \in 1..Len(availableTokens) : availableTokens[k].id = equationTokens[j].id}

\* What unplace(j) is to leave behind, in the primed variables.
UnplacedRight(j) ==
    /\ Len(equationTokens') = Len(equationTokens) - 1
    /\ \A k \in 1..(j - 1) : equationTokens'[k] = equationTokens[k]
    /\ \A k \in j..(Len(equationTokens) - 1) : equationTokens'[k] = equationTokens[k + 1]
    /\ Cardinality(PoolTokensOf(j)) = 1
    /\ Len(availableTokens') = Len(availableTokens)
    /\ \A k \in 1..Len(availableTokens) :
           /\ availableTokens'[k].id = availableTokens[k].id
           /\ availableTokens'[k].token = availableTokens[k].token
           /\ availableTokens'[k].used = (availableTokens[k].used /\ k \notin PoolTokensOf(j))
    /\ \A k \in PoolTokensOf(j) : availableTokens[k].used

\* A step of removeFromEquation(j) that leaves something else behind.
UnplacedWrong(j) == removeFromEquation(j) /\ ~UnplacedRight(j)

\* C18: removeFromEquation(j), for every index j of the sequence, takes out
\* the j-th entry and no other, keeps the order of the other entries (the
\* later ones move one place to the left), marks available the one pool
\* token that has the id of the removed entry, and leaves the flag of every
\* other pool token and the order of the pool as they are.
C18_UnplaceRemovesOneEntry ==
    \A j \in 1..Len(equationTokens) :
        ENABLED removeFromEquation(j) /\ ~ENABLED UnplacedWrong(j)

\* An entry of the revealed solution has been taken off at level 1.
C18_Witness ==
    /\ solutionVisible
    /\ currentLevel = 1
    /\ score = 0
    /\ Len(equationTokens) = Len(availableTokens) - 1
    /\ Len(equationTokens) >= 6

(***************************************************************************)
(* Claims about the result of buildRandomExpr (SpecGen).                   *)
(***************************************************************************)
\* The tokens of the expressions of a working list, the integers and the
\* operators among tokens, and the operators of a queue as tokens.
AllItemTokens(its) == Join([k \in 1..Len(its) |-> tokenize(its[k].expr)])
IntParts(toks) == SelectSeq(toks, IsIntegerToken)
OpParts(toks) == SelectSeq(toks, IsOperatorToken)
QueueTokens(queue) == [k \in 1..Len(queue) |-> <<queue[k]>>]

RECURSIVE EndOfOperand(_, _)
\* Where the fully parenthesized operand that starts at position p of s
\* ends (an integer, or two such operands and an operator between them in
\* one pair of parentheses); 0 if there is none.
EndOfOperand(s, p) ==
    IF p < 1 \/ p > Len(s) THEN 0
    ELSE IF s[p] \in Digits
    THEN IF p < Len(s) /\ s[p + 1] \in Digits THEN EndOfOperand(s, p + 1) ELSE p
    ELSE IF s[p] # "(" THEN 0
    ELSE LET a == EndOfOperand(s, p + 1)
         IN IF a = 0 \/ a + 1 > Len(s) \/ s[a + 1] \notin Range(OPS) THEN 0
            ELSE LET b == EndOfOperand(s, a + 2)
                 IN IF b = 0 \/ b + 1 > Len(s) \/ s[b + 1] # ")" THEN 0 ELSE b + 1

FullyParenthesized(s) == s # <<>> /\ EndOfOperand(s, 1) = Len(s)

\* The number N of integers buildRandomExpr was called with.
GenN == NumCount(currentLevel)

\* The working list and the queue during a call, and the result at return.
GenProgress ==
    /\ Len(items) = GenN - reductions
    /\ Len(opsCopy) = Len(items) - 1
    /\ Count(Join([k \in 1..Len(items) |-> items[k].expr]), "(",
             Len(Join([k \in 1..Len(items) |-> items[k].expr]))) = reductions
    /\ \A k \in 1..Len(items) : FullyParenthesized(items[k].expr)
    /\ genPc = "done" =>
           /\ reductions = GenN - 1
           /\ Len(items) = 1
           /\ Balanced(items[1].expr)
           /\ Count(items[1].expr, "(", Len(items[1].expr)) = GenN - 1
           /\ Count(items[1].expr, ")", Len(items[1].expr)) = GenN - 1
           /\ Len(IntParts(tokenize(items[1].expr))) = GenN
           /\ Len(OpParts(tokenize(items[1].expr))) = GenN - 1
           /\ opsCopy = <<>>

\* A step keeps the integers of the working list, and the operators of the
\* working list and the queue together, as multisets.
GenConserves ==
    /\ TextBag(IntParts(AllItemTokens(items'))) = TextBag(IntParts(AllItemTokens(items)))
    /\ TextBag(OpParts(AllItemTokens(items')) \o QueueTokens(opsCopy'))
           = TextBag(OpParts(AllItemTokens(items)) \o QueueTokens(opsCopy))

\* C19: when buildRandomExpr returns for N integers and N-1 operators it has
\* made exactly N-1 successful reductions, and the expression it returns is
\* fully parenthesized and balanced with N-1 pairs of parentheses and holds
\* the N integers and the N-1 supplied operators, each once (as multisets):
\* the queue never runs out, so no operator is drawn at random.
C19_ResultHoldsTheInputs ==
    /\ []GenProgress
    /\ [][GenConserves]_vars

\* A call with four integers has returned an expression with a division and
\* a subtraction.
C19_Witness ==
    /\ genPc = "done"
    /\ GenN = 4
    /\ <<"/">> \in Range(tokenize(items[1].expr))
    /\ <<"-">> \in Range(tokenize(items[1].expr))

\* An iteration of the loop that reduces nothing.
FailedReduction ==
    /\ genPc = "loop"
    /\ Len(items) > 1
    /\ genPc' = "loop"
    /\ reductions' = reductions

\* C20: an iteration of buildRandomExpr whose candidate fails consumes
\* nothing: the operator it drew is back at the front of the queue with the
\* rest of the queue behind it, the working list holds the same items as a
\* multiset, and the next iteration draws the same operator.
C20_FailedReductionConsumesNothing ==
    [][FailedReduction =>
          /\ opsCopy' = <<lastOp'>> \o Shifted(opsCopy)
          /\ Len(opsCopy') = Len(opsCopy)
          /\ TextBag(items') = TextBag(items)
          /\ Len(items') = Len(items)
          /\ OpDraws(opsCopy') = {lastOp'}]_vars

\* The division has been drawn after two subtractions and is still at the
\* front of the queue: its candidate failed.
C20_Witness ==
    /\ genPc = "loop"
    /\ reductions = 2
    /\ Len(items) = 2
    /\ lastOp = "/"
    /\ opsCopy = <<"/">>
    /\ \A k \in 1..Len(items) : "/" \notin Range(items[k].expr)

(***************************************************************************)
(* The texts of the fixed grammar: integer literals, the binary operators  *)
(* + - * / and parentheses.  A text over the allowed characters is one of  *)
(* them exactly when its parentheses balance, it starts with a digit or an *)
(* open parenthesis, ends with a digit or a close parenthesis, and every   *)
(* character is followed by one that may follow it.                        *)
(***************************************************************************)
BinaryOps == {"+", "-", "*", "/"}
MayFollow(c, d) ==
    IF c \in Digits THEN d \in Digits \cup BinaryOps \cup {")"}
    ELSE IF c = ")" THEN d \in BinaryOps \cup {")"}
    ELSE d \in Digits \cup {"("}
WellFormed(s) ==
    /\ HasOnlyGrammarChars(s)
    /\ Balanced(s)
    /\ s[1] \in Digits \cup {"("}
    /\ s[Len(s)] \in Digits \cup {")"}
    /\ \A k \in 1..(Len(s) - 1) : MayFollow(s[k], s[k + 1])

(***************************************************************************)
(* C21: the evaluator gives a value only to a text of the fixed grammar:   *)
(* for any other text over the allowed characters (adjacent operators such *)
(* as **, juxtaposed groups, empty parentheses) safeEval throws, and the   *)
(* checker's verdict on such an arrangement is never Correct, WrongAnswer  *)
(* or NotWholeNumber.                                                      *)
(***************************************************************************)
C21_ValueOnlyForGrammarTexts ==
    Checked =>
        LET clean == SelectSeq(CheckedText, NonBlank)
        IN (HasOnlyGrammarChars(clean) /\ ~WellFormed(clean)) =>
              /\ safeEval(clean).thrown
              /\ Verdict \notin {"Correct", "WrongAnswer", "NotWholeNumber"}

(***************************************************************************)
(* Claims about replay, level advance and the countdown (Spec).            *)
(***************************************************************************)
\* The pool is a fresh one of the tokens toks: every token of toks once,
\* none marked used.
FreshPoolOf(pool, toks) ==
    /\ TextBag(PoolTexts(pool)) = TextBag(toks)
    /\ Len(pool) = Len(toks)
    /\ \A k \in 1..Len(pool) : ~pool[k].used

\* The puzzle of the round in play is on the screen again, to be built anew.
RoundInPlayRestored ==
    /\ puzzleVars' = puzzleVars
    /\ FreshPoolOf(availableTokens', originalTokens)
    /\ equationTokens' = <<>>

\* C22: replayCurrentQuestion restores the puzzle of the round in play: after
\* it the expression, the original tokens and the target are those of the
\* round generated last, the fallback puzzle included, the pool is a fresh
\* one of those tokens and the equation sequence is empty.
C22_ReplayRestoresRoundInPlay == [][replayCurrentQuestion => RoundInPlayRestored]_vars

\* The round the next state holds was generated with the parameters of
\* level L: the countdown starts at the duration of L, and the puzzle is the
\* fallback or one that an attempt at level L gives, with the token count
\* of L in the question record.
RoundOfLevel(L) ==
    /\ timeLeft' = getTimerDurationForLevel(L)
    /\ \/ originalExpr' = FallbackExpr
       \/ /\ \E o \in RoundOutcomes[L] :
                o.accepted /\ o.expr = originalExpr' /\ Some(o.target) = targetValue'
          /\ currentQuestionRef'[1].numCount = NumCount(L)

\* C23: the round that nextLevel generates when the player advances from
\* level L uses the parameters of level L+1, the level then shown: its
\* token count, magnitude cap, operator weights and timer duration.
C23_NextLevelUsesNewLevel == [][nextLevel => RoundOfLevel(currentLevel')]_vars

\* C24: a Correct verdict stays shown until the player advances: the
\* countdown reaching zero never replaces the Correct dialog with the
\* time-up dialog, so the time-up dialog opens only on a round that has not
\* been solved.
C24_CorrectOutlivesCountdown == [][activePopup = "correct" => activePopup' # "timeUp"]_vars

====
